---- MODULE Spec2Model ----
(***************************************************************************)
(* A state-machine model of mwparserfromhell/parser/tokenizer.py: the      *)
(* Tokenizer's head, its stack of frames, and the Python call stack of     *)
(* _parse_until / _parse_template / _parse_entity activations, with the    *)
(* BadRoute exception modelled as an in-flight value that unwinds the      *)
(* call stack one activation at a time.                                    *)
(*                                                                         *)
(* A character is a one-character string; a text is a sequence of them.    *)
(***************************************************************************)
EXTENDS Integers, Sequences, FiniteSets, TLC

VARIABLES
    text,     \* self._text: the characters of the input being tokenized
    head,     \* self._head
    stacks,   \* self._stacks: sequence of frames [stack, context], top last
    calls,    \* the Python call stack below tokenize, innermost last
    exc,      \* the exception in flight: "none", "BadRoute", "ValueError", "AttributeError"
    ret,      \* the value last returned by a _parse_until activation
    pc,       \* the caller's view of tokenize: "idle", "running", "done", "error"
    todo      \* the inputs the caller still passes to tokenize, in order

vars == <<text, head, stacks, calls, exc, ret, pc, todo>>

(***************************************************************************)
(* Bounds of the model.                                                    *)
(***************************************************************************)
MaxLen == 3         \* longest input enumerated character by character
MaxPieces == 4      \* most pieces in an input assembled from markup pieces
MaxDigits == 7      \* most digits of an enumerated decimal reference
MaxHexDigits == 6   \* most digits of an enumerated hexadecimal reference
MaxEntityName == 3  \* longest name of an enumerated named reference
MaxName == 4        \* longest body of an enumerated one-level template
MaxInner == 2       \* longest body of an enumerated nested template

(***************************************************************************)
(* contexts: the bitmask values.  The module contexts is imported by       *)
(* tokenizer.py (line 26) but is not among the sources; the values are     *)
(* taken from the specification's data model: one bit per part of a        *)
(* template, and TEMPLATE the mask that is set while any of them is, as    *)
(* the test at line 91 on a frame opened with TEMPLATE_NAME alone (line    *)
(* 120) requires.                                                          *)
(***************************************************************************)
TEMPLATE_NAME == 1
TEMPLATE_PARAM_KEY == 2
TEMPLATE_PARAM_VALUE == 4
TEMPLATE == 7

RECURSIVE BitAnd(_, _)
BitAnd(a, b) ==
    IF a = 0 \/ b = 0 THEN 0
    ELSE (a % 2) * (b % 2) + 2 * BitAnd(a \div 2, b \div 2)

RECURSIVE BitOr(_, _)
BitOr(a, b) ==
    IF a = 0 THEN b
    ELSE IF b = 0 THEN a
    ELSE (IF (a % 2) + (b % 2) > 0 THEN 1 ELSE 0) + 2 * BitOr(a \div 2, b \div 2)

RECURSIVE BitXor(_, _)
BitXor(a, b) ==
    IF a = 0 THEN b
    ELSE IF b = 0 THEN a
    ELSE (((a % 2) + (b % 2)) % 2) + 2 * BitXor(a \div 2, b \div 2)

(***************************************************************************)
(* tokens: the token catalog (module tokens, imported at line 27 and not   *)
(* among the sources): a record per token, with the fields the tokenizer   *)
(* passes to the constructors.                                             *)
(***************************************************************************)
Text(t) == [type |-> "Text", text |-> t]
TemplateOpen == [type |-> "TemplateOpen"]
TemplateClose == [type |-> "TemplateClose"]
TemplateParamSeparator == [type |-> "TemplateParamSeparator"]
TemplateParamEquals == [type |-> "TemplateParamEquals"]
HTMLEntityStart == [type |-> "HTMLEntityStart"]
HTMLEntityNumeric == [type |-> "HTMLEntityNumeric"]
HTMLEntityHex(c) == [type |-> "HTMLEntityHex", char |-> c]
HTMLEntityEnd == [type |-> "HTMLEntityEnd"]

IsText(token) == token.type = "Text"

(***************************************************************************)
(* Character classes of the string module and the entity table.            *)
(***************************************************************************)
digits == {"0", "1", "2", "3", "4", "5", "6", "7", "8", "9"}
ascii_lowercase ==
    <<"a", "b", "c", "d", "e", "f", "g", "h", "i", "j", "k", "l", "m",
      "n", "o", "p", "q", "r", "s", "t", "u", "v", "w", "x", "y", "z">>
ascii_uppercase ==
    <<"A", "B", "C", "D", "E", "F", "G", "H", "I", "J", "K", "L", "M",
      "N", "O", "P", "Q", "R", "S", "T", "U", "V", "W", "X", "Y", "Z">>
ascii_letters ==
    {ascii_lowercase[i] : i \in 1..26} \cup {ascii_uppercase[i] : i \in 1..26}
hexdigits == digits \cup {"a", "b", "c", "d", "e", "f", "A", "B", "C", "D", "E", "F"}
whitespace == {" ", "\t", "\n", "\r", "\f"}

\* str.lower() of one character
Lower(c) ==
    IF \E i \in 1..26 : ascii_uppercase[i] = c
    THEN ascii_lowercase[CHOOSE i \in 1..26 : ascii_uppercase[i] = c]
    ELSE c

\* htmlentitydefs.entitydefs, cut down to the names the inputs below can spell
entitydefs ==
    { <<"a", "m", "p">>, <<"l", "t">>, <<"g", "t">>,
      <<"q", "u", "o", "t">>, <<"n", "b", "s", "p">> }

\* the value int() gives one digit character
DigitValue(c) ==
    LET l == Lower(c)
        order == <<"0", "1", "2", "3", "4", "5", "6", "7", "8", "9",
                   "a", "b", "c", "d", "e", "f">>
    IN  (CHOOSE i \in 1..16 : order[i] = l) - 1

\* int(text, base) of a non-empty digit string
RECURSIVE IntOf(_, _)
IntOf(t, base) ==
    IF Len(t) = 0 THEN 0
    ELSE IntOf(SubSeq(t, 1, Len(t) - 1), base) * base + DigitValue(t[Len(t)])

\* str.strip(): leading and trailing whitespace removed
RECURSIVE LStrip(_)
LStrip(t) ==
    IF Len(t) > 0 /\ t[1] \in whitespace THEN LStrip(Tail(t)) ELSE t

RECURSIVE RStrip(_)
RStrip(t) ==
    IF Len(t) > 0 /\ t[Len(t)] \in whitespace
    THEN RStrip(SubSeq(t, 1, Len(t) - 1)) ELSE t

Strip(t) == RStrip(LStrip(t))

EndsWith(t, c) == Len(t) > 0 /\ t[Len(t)] = c

(***************************************************************************)
(* Cursor and frame-stack primitives.                                      *)
(***************************************************************************)
START == "START"
END == "END"

\* _read(delta) with the head at h (wrap is never passed)
ReadAt(h, delta) ==
    LET index == h + delta
    IN  IF index < 0 THEN START
        ELSE IF index >= Len(text) THEN END
        ELSE text[index + 1]

Read(delta) == ReadAt(head, delta)

AtHead(chars) == \A i \in 1..Len(chars) : Read(i - 1) = chars[i]

\* the active frame's token list and context
Stack == stacks[Len(stacks)].stack
Context == stacks[Len(stacks)].context

Push(s, context) == Append(s, [stack |-> <<>>, context |-> context])

Pop(s) == SubSeq(s, 1, Len(s) - 1)

\* _write without the merge of a Text into a preceding Text
WriteNoMerge(stack, token) == Append(stack, token)

\* _write on a token list: a Text after a Text is merged into it
Write(stack, token) ==
    IF Len(stack) = 0 THEN <<token>>
    ELSE LET last == stack[Len(stack)]
         IN  IF IsText(token) /\ IsText(last)
             THEN [stack EXCEPT ![Len(stack)] = Text(last.text \o token.text)]
             ELSE Append(stack, token)

WriteAll(stack, tokenlist) == stack \o tokenlist

\* the frame stack after _write / _write_all / a context assignment on the active frame
WriteTop(s, token) == [s EXCEPT ![Len(s)].stack = Write(@, token)]
WriteAllTop(s, tokenlist) == [s EXCEPT ![Len(s)].stack = WriteAll(@, tokenlist)]
\* a context kept once for the whole tokenizer instead of once per frame
SetContextShared(s, value) == [k \in 1..Len(s) |-> [s[k] EXCEPT !.context = value]]

SetContext(s, value) == [s EXCEPT ![Len(s)].context = value]

(***************************************************************************)
(* Activations on the call stack.                                          *)
(***************************************************************************)
StopEND == [iterable |-> FALSE, chars |-> <<>>]
StopClose == [iterable |-> TRUE, chars |-> <<"}", "}">>]

ParseUntilCall(stop) == [fn |-> "_parse_until", stop |-> stop, at |-> "loop"]
ParseTemplateCall(reset) == [fn |-> "_parse_template", reset |-> reset, at |-> "try"]
ParseEntityCall(reset, numeric, hexadecimal) ==
    [fn |-> "_parse_entity", reset |-> reset, numeric |-> numeric,
     hexadecimal |-> hexadecimal, text |-> <<>>]

Top == calls[Len(calls)]
SetTopAt(c, at) == [c EXCEPT ![Len(c)].at = at]

Running(fn) == pc = "running" /\ exc = "none" /\ calls # <<>> /\ Top.fn = fn
LoopTop == Running("_parse_until") /\ Top.at = "loop"

\* _verify_context_pre_stop without its end-of-input test
PreStopNever == FALSE

\* _verify_context_pre_stop without its test of the context
PreStopAnyContext == Read(0) = END

\* _verify_context_pre_stop raises
PreStopRaises == Read(0) = END /\ BitAnd(Context, TEMPLATE) # 0

\* _catch_stop: the stop sequence is matched at the head
StopMatched(stop) ==
    stop.iterable /\ \A i \in 1..Len(stop.chars) : Read(i - 1) = stop.chars[i]

CatchStop(stop) == Read(0) = END \/ StopMatched(stop)

\* _catch_stop leaving the head on the first character of the stop sequence
CatchStopHeadStays(stop) == head

\* _catch_stop moving the head by the whole length of the stop sequence
CatchStopHeadOver(stop) ==
    IF Read(0) # END /\ StopMatched(stop) THEN head + Len(stop.chars) ELSE head

\* the head after _catch_stop
CatchStopHead(stop) ==
    IF Read(0) # END /\ StopMatched(stop) THEN head + Len(stop.chars) - 1 ELSE head

\* _verify_context_post_stop without the test of head.text.strip()
PostStopNoStrip ==
    /\ BitAnd(Context, TEMPLATE_NAME) # 0
    /\ Len(Stack) > 0
    /\ IsText(Stack[Len(Stack)])
    /\ EndsWith(Stack[Len(Stack)].text, "\n")
    /\ Read(0) \notin {"|", "=", "\n"}

\* _verify_context_post_stop raises
PostStopRaises ==
    /\ BitAnd(Context, TEMPLATE_NAME) # 0
    /\ Len(Stack) > 0
    /\ IsText(Stack[Len(Stack)])
    /\ Len(Strip(Stack[Len(Stack)].text)) > 0
    /\ EndsWith(Stack[Len(Stack)].text, "\n")
    /\ Read(0) \notin {"|", "=", "\n"}

\* the loop reaches the dispatch of line 192
Dispatch == LoopTop /\ ~PreStopRaises /\ ~CatchStop(Top.stop) /\ ~PostStopRaises

(***************************************************************************)
(* Actions.                                                                *)
(***************************************************************************)
\* tokenize(text): set the text and enter the top-level _parse_until
Tokenize ==
    /\ pc \in {"idle", "done", "error"}
    /\ todo # <<>>
    /\ text' = Head(todo)
    /\ todo' = Tail(todo)
    /\ stacks' = Push(stacks, 0)
    /\ calls' = <<ParseUntilCall(StopEND)>>
    /\ pc' = "running"
    /\ exc' = "none"
    /\ ret' = <<>>
    /\ UNCHANGED head

\* raise BadRoute(self._pop())
RaiseBadRoute ==
    /\ stacks' = Pop(stacks)
    /\ exc' = "BadRoute"
    /\ UNCHANGED <<text, head, calls, ret, pc, todo>>

VerifyContextPreStop ==
    /\ LoopTop
    /\ PreStopRaises
    /\ RaiseBadRoute

\* the loop's success exit: return self._pop()
ParseUntilReturn ==
    /\ LoopTop
    /\ ~PreStopRaises
    /\ CatchStop(Top.stop)
    /\ head' = CatchStopHead(Top.stop)
    /\ ret' = Stack
    /\ stacks' = Pop(stacks)
    /\ IF Len(calls) = 1
       THEN calls' = <<>> /\ pc' = "done"
       ELSE calls' = SetTopAt(Pop(calls), "else") /\ pc' = pc
    /\ UNCHANGED <<text, exc, todo>>

VerifyContextPostStop ==
    /\ LoopTop
    /\ ~PreStopRaises
    /\ ~CatchStop(Top.stop)
    /\ PostStopRaises
    /\ RaiseBadRoute

\* _parse_template up to its call of _parse_until("}}", TEMPLATE_NAME)
ParseTemplate ==
    /\ Dispatch
    /\ AtHead(<<"{", "{">>)
    /\ head' = head + 2
    /\ stacks' = Push(stacks, TEMPLATE_NAME)
    /\ calls' = SetTopAt(calls, "advance")
                \o <<ParseTemplateCall(head), ParseUntilCall(StopClose)>>
    /\ UNCHANGED <<text, exc, ret, pc, todo>>

\* except BadRoute of _parse_template
ParseTemplateExcept ==
    /\ pc = "running"
    /\ exc = "BadRoute"
    /\ calls # <<>>
    /\ Top.fn = "_parse_template"
    /\ head' = Top.reset
    /\ stacks' = WriteTop(stacks, Text(<<ReadAt(Top.reset, 0)>>))
    /\ exc' = "none"
    /\ calls' = Pop(calls)
    /\ UNCHANGED <<text, ret, pc, todo>>

\* else branch of _parse_template
ParseTemplateElse ==
    /\ Running("_parse_template")
    /\ Top.at = "else"
    /\ stacks' = WriteTop(WriteAllTop(WriteTop(stacks, TemplateOpen), ret),
                          TemplateClose)
    /\ calls' = Pop(calls)
    /\ UNCHANGED <<text, head, exc, ret, pc, todo>>

\* _handle_template_param without its last assignment, context |= TEMPLATE_PARAM_KEY
HandleTemplateParamContextNoKey(context) ==
    LET c1 == IF BitAnd(context, TEMPLATE_NAME) # 0
              THEN BitXor(context, TEMPLATE_NAME) ELSE context
    IN  IF BitAnd(c1, TEMPLATE_PARAM_VALUE) # 0
        THEN BitXor(c1, TEMPLATE_PARAM_VALUE) ELSE c1

\* _handle_template_param and the loop's head increment
HandleTemplateParamContext(context) ==
    LET c1 == IF BitAnd(context, TEMPLATE_NAME) # 0
              THEN BitXor(context, TEMPLATE_NAME) ELSE context
        c2 == IF BitAnd(c1, TEMPLATE_PARAM_VALUE) # 0
              THEN BitXor(c1, TEMPLATE_PARAM_VALUE) ELSE c1
    IN  BitOr(c2, TEMPLATE_PARAM_KEY)

\* the '|' branch of _parse_until without its test of the context
HandleTemplateParamAnywhere ==
    /\ Dispatch
    /\ ~AtHead(<<"{", "{">>)
    /\ AtHead(<<"|">>)
    /\ stacks' = WriteTop(SetContext(stacks, HandleTemplateParamContext(Context)),
                          TemplateParamSeparator)
    /\ head' = head + 1
    /\ UNCHANGED <<text, calls, exc, ret, pc, todo>>

HandleTemplateParam ==
    /\ Dispatch
    /\ ~AtHead(<<"{", "{">>)
    /\ AtHead(<<"|">>)
    /\ BitAnd(Context, TEMPLATE) # 0
    /\ stacks' = WriteTop(SetContext(stacks, HandleTemplateParamContext(Context)),
                          TemplateParamSeparator)
    /\ head' = head + 1
    /\ UNCHANGED <<text, calls, exc, ret, pc, todo>>

\* _handle_template_param_value and the loop's head increment
\* _handle_template_param_value that leaves the context as it is
HandleTemplateParamValueContextStay(context) == context

\* _handle_template_param_value without its first line: KEY is not cleared
HandleTemplateParamValueContextKeepKey(context) ==
    BitOr(context, TEMPLATE_PARAM_VALUE)

HandleTemplateParamValueContext(context) ==
    BitOr(BitXor(context, TEMPLATE_PARAM_KEY), TEMPLATE_PARAM_VALUE)

HandleTemplateParamValue ==
    /\ Dispatch
    /\ ~AtHead(<<"{", "{">>)
    /\ ~(AtHead(<<"|">>) /\ BitAnd(Context, TEMPLATE) # 0)
    /\ AtHead(<<"=">>)
    /\ BitAnd(Context, TEMPLATE_PARAM_KEY) # 0
    /\ stacks' = WriteTop(SetContext(stacks, HandleTemplateParamValueContext(Context)),
                          TemplateParamEquals)
    /\ head' = head + 1
    /\ UNCHANGED <<text, calls, exc, ret, pc, todo>>

\* the dispatch reaches elif self._at_head("&")
EntityDispatch ==
    /\ Dispatch
    /\ ~AtHead(<<"{", "{">>)
    /\ ~(AtHead(<<"|">>) /\ BitAnd(Context, TEMPLATE) # 0)
    /\ ~(AtHead(<<"=">>) /\ BitAnd(Context, TEMPLATE_PARAM_KEY) # 0)

\* _parse_entity up to its while loop (lines 143-161)
ParseEntity ==
    /\ EntityDispatch
    /\ AtHead(<<"&">>)
    /\ LET h1 == head + 1
           numeric == ReadAt(h1, 0) = "#"
           noChar == numeric /\ ReadAt(h1, 1) = END
           hexadecimal == numeric /\ ~noChar /\ Lower(ReadAt(h1, 1)) = "x"
           s1 == WriteTop(Push(stacks, 0), HTMLEntityStart)
           s2 == IF numeric THEN WriteTop(s1, HTMLEntityNumeric) ELSE s1
           s3 == IF hexadecimal THEN WriteTop(s2, HTMLEntityHex(ReadAt(h1, 1))) ELSE s2
       IN  /\ stacks' = s3
           /\ head' = IF noChar THEN h1
                      ELSE IF hexadecimal THEN h1 + 2
                      ELSE IF numeric THEN h1 + 1
                      ELSE h1
           /\ exc' = IF noChar THEN "AttributeError" ELSE "none"
           /\ calls' = Append(SetTopAt(calls, "advance"),
                              ParseEntityCall(head, numeric, hexadecimal))
    /\ UNCHANGED <<text, ret, pc, todo>>

\* the alphabet the while loop of _parse_entity accepts
Valid(numeric, hexadecimal) ==
    (IF hexadecimal THEN hexdigits ELSE digits)
    \cup (IF ~numeric /\ ~hexadecimal THEN ascii_letters ELSE {})

\* the test at the ";" with the lower bound off by one
EntityOkFromZero(c) ==
    IF c.numeric
    THEN LET test == IF c.hexadecimal THEN IntOf(c.text, 16) ELSE IntOf(c.text, 10)
         IN  ~(test < 0 \/ test > 1114111)
    ELSE c.text \in entitydefs

\* the test at the ";" without the lookup of the name
EntityOkAnyName(c) ==
    IF c.numeric
    THEN LET test == IF c.hexadecimal THEN IntOf(c.text, 16) ELSE IntOf(c.text, 10)
         IN  ~(test < 1 \/ test > 1114111)
    ELSE TRUE

\* the entity's accumulated text passes the test at the ";"
EntityOk(c) ==
    IF c.numeric
    THEN LET test == IF c.hexadecimal THEN IntOf(c.text, 16) ELSE IntOf(c.text, 10)
         IN  ~(test < 1 \/ test > 1114111)
    ELSE c.text \in entitydefs

\* int(text) of an empty string raises ValueError
EntityValueError ==
    /\ Running("_parse_entity")
    /\ AtHead(<<";">>)
    /\ Top.numeric
    /\ Top.text = <<>>
    /\ exc' = "ValueError"
    /\ UNCHANGED <<text, head, stacks, calls, ret, pc, todo>>

\* at the ";" with a good value: write the text and the end, then _write_all(self._pop())
EntityAccept ==
    /\ Running("_parse_entity")
    /\ AtHead(<<";">>)
    /\ ~(Top.numeric /\ Top.text = <<>>)
    /\ EntityOk(Top)
    /\ LET own == Write(Write(Stack, Text(Top.text)), HTMLEntityEnd)
       IN  stacks' = WriteAllTop(Pop(stacks), own)
    /\ calls' = Pop(calls)
    /\ UNCHANGED <<text, head, exc, ret, pc, todo>>

\* at the ";" with a bad value or an unknown name
EntityRejectValue ==
    /\ Running("_parse_entity")
    /\ AtHead(<<";">>)
    /\ ~(Top.numeric /\ Top.text = <<>>)
    /\ ~EntityOk(Top)
    /\ RaiseBadRoute

\* end of input or a character outside the alphabet
EntityRejectChar ==
    /\ Running("_parse_entity")
    /\ ~AtHead(<<";">>)
    /\ (Read(0) = END \/ Read(0) \notin Valid(Top.numeric, Top.hexadecimal))
    /\ RaiseBadRoute

\* text.append(self._read()); self._head += 1
EntityAppend ==
    /\ Running("_parse_entity")
    /\ ~AtHead(<<";">>)
    /\ ~(Read(0) = END \/ Read(0) \notin Valid(Top.numeric, Top.hexadecimal))
    /\ calls' = [calls EXCEPT ![Len(calls)].text = Append(@, Read(0))]
    /\ head' = head + 1
    /\ UNCHANGED <<text, stacks, exc, ret, pc, todo>>

\* except BadRoute of _parse_entity
\* the except clause of _parse_entity without its self._head = reset
ParseEntityExceptNoReset ==
    /\ pc = "running"
    /\ exc = "BadRoute"
    /\ calls # <<>>
    /\ Top.fn = "_parse_entity"
    /\ stacks' = WriteTop(stacks, Text(<<ReadAt(Top.reset, 0)>>))
    /\ exc' = "none"
    /\ calls' = Pop(calls)
    /\ UNCHANGED <<text, head, ret, pc, todo>>

ParseEntityExcept ==
    /\ pc = "running"
    /\ exc = "BadRoute"
    /\ calls # <<>>
    /\ Top.fn = "_parse_entity"
    /\ head' = Top.reset
    /\ stacks' = WriteTop(stacks, Text(<<ReadAt(Top.reset, 0)>>))
    /\ exc' = "none"
    /\ calls' = Pop(calls)
    /\ UNCHANGED <<text, ret, pc, todo>>

\* the else branch of the dispatch and the loop's head increment
WriteText ==
    /\ EntityDispatch
    /\ ~AtHead(<<"&">>)
    /\ stacks' = WriteTop(stacks, Text(<<Read(0)>>))
    /\ head' = head + 1
    /\ UNCHANGED <<text, calls, exc, ret, pc, todo>>

\* self._head += 1 after a sub-parser returned to the loop
\* the end of the loop body without line 202
AdvanceStays ==
    /\ Running("_parse_until")
    /\ Top.at = "advance"
    /\ calls' = SetTopAt(calls, "loop")
    /\ UNCHANGED <<text, head, stacks, exc, ret, pc, todo>>

Advance ==
    /\ Running("_parse_until")
    /\ Top.at = "advance"
    /\ head' = head + 1
    /\ calls' = SetTopAt(calls, "loop")
    /\ UNCHANGED <<text, stacks, exc, ret, pc, todo>>

\* the activation's try statement catches the exception
Handles(c, e) ==
    /\ e = "BadRoute"
    /\ c.fn \in {"_parse_template", "_parse_entity"}

\* an exception leaves an activation that does not catch it
Propagate ==
    /\ pc = "running"
    /\ exc # "none"
    /\ calls # <<>>
    /\ ~Handles(Top, exc)
    /\ calls' = Pop(calls)
    /\ pc' = IF Len(calls) = 1 THEN "error" ELSE pc
    /\ UNCHANGED <<text, head, stacks, exc, ret, todo>>

Next ==
    \/ Tokenize
    \/ VerifyContextPreStop
    \/ ParseUntilReturn
    \/ VerifyContextPostStop
    \/ ParseTemplate
    \/ ParseTemplateExcept
    \/ ParseTemplateElse
    \/ HandleTemplateParam
    \/ HandleTemplateParamValue
    \/ ParseEntity
    \/ EntityValueError
    \/ EntityAccept
    \/ EntityRejectValue
    \/ EntityRejectChar
    \/ EntityAppend
    \/ ParseEntityExcept
    \/ WriteText
    \/ Advance
    \/ Propagate

(***************************************************************************)
(* The inputs a caller passes.                                             *)
(***************************************************************************)
StringsUpTo(S, n) == UNION {[1..k -> S] : k \in 0..n}

RECURSIVE Concat(_)
Concat(ss) == IF Len(ss) = 0 THEN <<>> ELSE Head(ss) \o Concat(Tail(ss))

\* every string of markup characters, a letter and a newline
MarkupChars == {"{", "}", "|", "=", "&", ";", "a", "\n"}
CharInputs == StringsUpTo(MarkupChars, MaxLen)

\* every string of the characters an entity reference is made of
EntityChars == {"&", "#", "x", ";", "1", "a"}
EntityCharInputs == StringsUpTo(EntityChars, MaxLen)

\* every string assembled from whole pieces of markup
Pieces ==
    { <<"{", "{">>, <<"}", "}">>, <<"|">>, <<"=">>, <<"a">>, <<"\n">>,
      <<"&", "l", "t", ";">> }
PieceInputs == {Concat(w) : w \in StringsUpTo(Pieces, MaxPieces)}

\* "&#D;", "&#xH;" and "&#XH;"
DecInputs ==
    {<<"&", "#">> \o d \o <<";">> : d \in StringsUpTo({"0", "1", "4"}, MaxDigits)}
HexInputs ==
    UNION {{<<"&", "#", x>> \o d \o <<";">> :
                d \in StringsUpTo({"0", "1", "F"}, MaxHexDigits)} : x \in {"x", "X"}}

\* "&N" followed by ";", by nothing, or by a character no name may hold
NamedInputs ==
    UNION {{<<"&">> \o n \o r :
                n \in StringsUpTo({"a", "l", "t", "1"}, MaxEntityName)} :
           r \in {<<";">>, <<>>, <<"|", ";">>, <<"#", ";">>, <<" ", ";">>}}

\* "{{w}}" with w free of braces and ampersands
NameInputs ==
    {<<"{", "{">> \o w \o <<"}", "}">> :
        w \in StringsUpTo({"a", "\n", " ", "|", "="}, MaxName)}

\* "{{a|k{{m}}t}}": a template in a parameter of a template
NestInputs ==
    UNION {UNION {{<<"{", "{", "a", "|">> \o k \o <<"{", "{">> \o m
                      \o <<"}", "}">> \o t \o <<"}", "}">> :
                      m \in StringsUpTo({"b", "|", "="}, MaxInner)} :
                  k \in {<<>>, <<"b">>, <<"b", "=">>, <<"b", "=", "c">>}} :
           t \in {<<>>, <<"d">>}}

\* the inputs the specification's sentences name
ExParams == <<"{", "{", "a", "|", "b", "=", "c", "|", "d", "}", "}">>
ExNewlineWord == <<"{", "{", "a", "\n", "\n", "b", "}", "}">>
ExNewlineClose == <<"{", "{", "a", "\n", "}", "}">>
ExNewlineParam == <<"{", "{", "a", "\n", "|", "b", "}", "}">>
ExNested == <<"{", "{", "a", "|", "{", "{", "b", "}", "}", "}", "}">>
ExAmp == <<"&", "a", "m", "p", ";">>
ExNotAnEntity ==
    <<"&", "n", "o", "t", "a", "r", "e", "a", "l", "e", "n", "t", "i", "t", "y", ";">>
ExMaxPlusOne == <<"&", "#", "1", "1", "1", "4", "1", "1", "2", ";">>
ExNameEquals == <<"{", "{", "a", "=", "b", "}", "}">>
ExTwoEquals == <<"{", "{", "a", "|", "b", "=", "c", "=", "d", "}", "}">>
ExNestedKey ==
    <<"{", "{", "a", "|", "{", "{", "b", "|", "c", "=", "d", "}", "}", "=", "e", "}", "}">>
ExEntityKey ==
    <<"{", "{", "a", "|", "b", "&", "a", "m", "p", ";", "=", "c", "}", "}">>
ExUnterminated == <<"{", "{", "a", "|", "{", "{", "b", "}", "}", "&", "#", "x", "1", ";">>
ExInnerNewline ==
    <<"{", "{", "a", "|", "{", "{", "b", "\n", "c", "|", "d", "}", "}">>

Examples ==
    { ExParams, ExNewlineWord, ExNewlineClose, ExNewlineParam, ExNested, ExAmp,
      ExNotAnEntity, ExMaxPlusOne, ExNameEquals, ExTwoEquals, ExNestedKey,
      ExEntityKey, ExUnterminated, ExInnerNewline }

Inputs ==
    CharInputs \cup EntityCharInputs \cup PieceInputs \cup DecInputs \cup HexInputs
    \cup NamedInputs \cup NameInputs \cup NestInputs \cup Examples

\* the state after Tokenizer(); _text is None until tokenize sets it and is
\* never read before, the empty text stands for it
Fresh ==
    /\ text = <<>>
    /\ head = 0
    /\ stacks = <<>>
    /\ calls = <<>>
    /\ exc = "none"
    /\ ret = <<>>
    /\ pc = "idle"

Init ==
    /\ Fresh
    /\ todo \in {<<t>> : t \in Inputs}

Spec == Init /\ [][Next]_vars

\* the inputs of two successive calls on one Tokenizer
ReuseInputs ==
    { <<>>, <<"a", "b">>, <<"{", "{", "a">>, <<"&", "a">>, <<"&", "l", "t", ";">>,
      <<"&", "#", "0", ";">>, <<"&", "#", ";">>, ExParams, ExNewlineWord }

InitReuse ==
    /\ Fresh
    /\ todo \in {<<t1, t2>> : t1 \in ReuseInputs, t2 \in ReuseInputs}

SpecReuse == InitReuse /\ [][Next]_vars

(***************************************************************************)
(* Operators on token sequences used to state the properties.              *)
(***************************************************************************)
\* the markup a token stands for
RenderToken(token) ==
    CASE token.type = "Text" -> token.text
      [] token.type = "TemplateOpen" -> <<"{", "{">>
      [] token.type = "TemplateClose" -> <<"}", "}">>
      [] token.type = "TemplateParamSeparator" -> <<"|">>
      [] token.type = "TemplateParamEquals" -> <<"=">>
      [] token.type = "HTMLEntityStart" -> <<"&">>
      [] token.type = "HTMLEntityNumeric" -> <<"#">>
      [] token.type = "HTMLEntityHex" -> <<token.char>>
      [] token.type = "HTMLEntityEnd" -> <<";">>

RECURSIVE Render(_)
Render(tokenlist) ==
    IF Len(tokenlist) = 0 THEN <<>>
    ELSE RenderToken(Head(tokenlist)) \o Render(Tail(tokenlist))

Types(tokenlist) == {tokenlist[i].type : i \in 1..Len(tokenlist)}

Count(tokenlist, type, n) == Cardinality({i \in 1..n : tokenlist[i].type = type})

\* tokenize has returned its token sequence, ret
Done == pc = "done"

Contains(t, c) == \E i \in 1..Len(t) : t[i] = c

\* C1: whenever tokenize returns, rendering the returned tokens in order (Text
\* as its content, each marker as the markup it stands for) gives back the
\* input, character for character.
RoundTrip == Done => Render(ret) = text

\* a returned sequence with a template, an entity and a rolled-back "{{"
RoundTripWitness ==
    /\ Done
    /\ text = ExUnterminated
    /\ {"TemplateOpen", "HTMLEntityHex", "Text"} \subseteq Types(ret)
    /\ Render(ret) = text

\* C2: tokenize never ends in an error: no exception leaves it, whatever the
\* input (unterminated templates, entity references cut short or without digits).
NeverFails == pc # "error"

\* no two neighbours of a token list are both Text
Coalesced(tokenlist) ==
    \A i \in 1..(Len(tokenlist) - 1) :
        ~(IsText(tokenlist[i]) /\ IsText(tokenlist[i + 1]))

\* C3: in every reachable state no frame of the frame stack holds two adjacent
\* Text tokens, and neither does a sequence returned by _parse_until or tokenize.
TextCoalescing ==
    /\ \A k \in 1..Len(stacks) : Coalesced(stacks[k].stack)
    /\ Coalesced(ret)

\* a frame that took a promoted template and then the literal "{" of two
\* rolled-back templates, merged into one Text
TextCoalescingWitness ==
    /\ Done
    /\ \E i \in 1..(Len(ret) - 1) :
          /\ ret[i] = TemplateClose
          /\ ret[i + 1] = Text(<<"{", "{">>)
    /\ \E i \in 1..(Len(ret) - 1) :
          /\ IsText(ret[i])
          /\ ret[i + 1] = TemplateOpen

\* opens and closes match like brackets
Balanced(tokenlist) ==
    /\ \A n \in 0..Len(tokenlist) :
          Count(tokenlist, "TemplateOpen", n) >= Count(tokenlist, "TemplateClose", n)
    /\ Count(tokenlist, "TemplateOpen", Len(tokenlist))
          = Count(tokenlist, "TemplateClose", Len(tokenlist))

\* the input position at which token i of the list begins
Offset(tokenlist, i) == Len(Render(SubSeq(tokenlist, 1, i - 1)))

\* "}}" occurs in t at some 0-based position >= p
ClosedFrom(t, p) ==
    \E q \in p..(Len(t) - 2) : t[q + 1] = "}" /\ t[q + 2] = "}"

\* C4: in what tokenize returns, TemplateOpen and TemplateClose are balanced and
\* properly nested, and a TemplateOpen stands only for a "{{" that has a "}}"
\* somewhere after it: a "{{" with no "}}" before the end of input gives no
\* TemplateOpen and no TemplateClose.
TemplateWellFormed ==
    Done =>
        /\ Balanced(ret)
        /\ \A i \in 1..Len(ret) :
              ret[i] = TemplateOpen => ClosedFrom(text, Offset(ret, i) + 2)
        /\ ~ClosedFrom(text, 0) =>
              {"TemplateOpen", "TemplateClose"} \cap Types(ret) = {}

\* "{{a{{}}": the outer "{{" runs to the end of input, the inner one is closed
TemplateWellFormedWitness ==
    /\ Done
    /\ text = <<"{", "{", "a", "{", "{", "}", "}">>
    /\ ret = <<Text(<<"{", "{", "a">>), TemplateOpen, TemplateClose>>

\* the number a digit string denotes, read from the left
RECURSIVE ValueFrom(_, _, _)
ValueFrom(d, base, acc) ==
    IF Len(d) = 0 THEN acc
    ELSE ValueFrom(Tail(d), base, acc * base + DigitValue(Head(d)))

Middle(t, from) == SubSeq(t, from, Len(t) - 1)

\* the whole input is "&#D;" with D one or more decimal digits
IsDecRef(t) ==
    /\ Len(t) >= 4
    /\ t[1] = "&" /\ t[2] = "#" /\ t[Len(t)] = ";"
    /\ \A i \in 3..(Len(t) - 1) : t[i] \in digits

\* the whole input is "&#xH;" or "&#XH;" with H one or more hexadecimal digits
IsHexRef(t) ==
    /\ Len(t) >= 5
    /\ t[1] = "&" /\ t[2] = "#" /\ t[3] \in {"x", "X"} /\ t[Len(t)] = ";"
    /\ \A i \in 4..(Len(t) - 1) : t[i] \in hexdigits

InCodeRange(v) == 1 <= v /\ v <= 1114111

\* C5: for an input "&#D;" (D decimal digits) or "&#xH;" / "&#XH;" (H hex
\* digits) entity tokens are returned iff the value lies in 1..0x10FFFF:
\* Start, Numeric, Text(D), End, resp. Start, Numeric, Hex(x or X), Text(H), End;
\* otherwise the whole reference comes back as one literal Text.
NumericBounds ==
    Done =>
        /\ IsDecRef(text) =>
              ret = IF InCodeRange(ValueFrom(Middle(text, 3), 10, 0))
                    THEN <<HTMLEntityStart, HTMLEntityNumeric,
                           Text(Middle(text, 3)), HTMLEntityEnd>>
                    ELSE <<Text(text)>>
        /\ IsHexRef(text) =>
              ret = IF InCodeRange(ValueFrom(Middle(text, 4), 16, 0))
                    THEN <<HTMLEntityStart, HTMLEntityNumeric, HTMLEntityHex(text[3]),
                           Text(Middle(text, 4)), HTMLEntityEnd>>
                    ELSE <<Text(text)>>

\* "&#1114111;", the largest accepted value
NumericBoundsWitness ==
    /\ Done
    /\ text = <<"&", "#", "1", "1", "1", "4", "1", "1", "1", ";">>
    /\ ret = <<HTMLEntityStart, HTMLEntityNumeric,
               Text(<<"1", "1", "1", "4", "1", "1", "1">>), HTMLEntityEnd>>

IsAlnum(c) == c \in ascii_letters \cup digits

\* the index of the last character of the name that follows an "&" at t[1]
NameEnd(t) ==
    CHOOSE k \in 1..Len(t) :
        /\ \A i \in 2..k : IsAlnum(t[i])
        /\ k = Len(t) \/ ~IsAlnum(t[k + 1])

\* C6: for an input that begins "&N" with N letters and digits (and not "&#"):
\* when ";" follows N and N is in the entity table the output begins
\* HTMLEntityStart, Text(N), HTMLEntityEnd; otherwise (unknown name, another
\* character or the end of input before ";") the "&" is literal text, and an
\* input that is exactly "&N;" comes back as one Text.
NamedEntity ==
    (Done /\ Len(text) > 0 /\ text[1] = "&") =>
        LET k == NameEnd(text)
            name == SubSeq(text, 2, k)
            closed == k < Len(text) /\ text[k + 1] = ";"
            numeric == k = 1 /\ Len(text) > 1 /\ text[2] = "#"
        IN  ~numeric =>
              IF closed /\ name \in entitydefs
              THEN /\ Len(ret) >= 3
                   /\ SubSeq(ret, 1, 3) = <<HTMLEntityStart, Text(name), HTMLEntityEnd>>
              ELSE /\ Len(ret) >= 1
                   /\ IsText(ret[1])
                   /\ ret[1].text[1] = "&"
                   /\ (closed /\ k + 1 = Len(text)) => ret = <<Text(text)>>

\* "&amp;" is an entity
NamedEntityWitness ==
    /\ Done
    /\ text = ExAmp
    /\ ret = <<HTMLEntityStart, Text(<<"a", "m", "p">>), HTMLEntityEnd>>

\* what the first n tokens leave open: one entry per unclosed TemplateOpen,
\* innermost last, saying which part of that template the tokens have reached
RECURSIVE Modes(_, _)
Modes(tokenlist, n) ==
    IF n = 0 THEN <<>>
    ELSE LET m == Modes(tokenlist, n - 1)
             type == tokenlist[n].type
         IN  CASE type = "TemplateOpen" -> Append(m, "name")
               [] type = "TemplateClose" ->
                     IF Len(m) = 0 THEN m ELSE SubSeq(m, 1, Len(m) - 1)
               [] type = "TemplateParamSeparator" ->
                     IF Len(m) = 0 THEN m ELSE [m EXCEPT ![Len(m)] = "key"]
               [] type = "TemplateParamEquals" ->
                     IF Len(m) = 0 THEN m ELSE [m EXCEPT ![Len(m)] = "value"]
               [] OTHER -> m

\* C7: in what tokenize returns, a Text inside a template never holds "|" (each
\* "|" of a parsed template is a TemplateParamSeparator of its own), and a Text
\* that follows a separator with no TemplateParamEquals in between never holds
\* "=" (the first "=" after a separator is the TemplateParamEquals); and
\* "{{a|b=c|d}}" gives Open, a, Separator, b, Equals, c, Separator, d, Close.
ParameterTransitions ==
    Done =>
        /\ \A i \in 1..Len(ret) :
              LET m == Modes(ret, i - 1)
              IN  (IsText(ret[i]) /\ Len(m) > 0) =>
                      /\ ~Contains(ret[i].text, "|")
                      /\ m[Len(m)] = "key" => ~Contains(ret[i].text, "=")
        /\ text = ExParams =>
              ret = <<TemplateOpen, Text(<<"a">>), TemplateParamSeparator,
                      Text(<<"b">>), TemplateParamEquals, Text(<<"c">>),
                      TemplateParamSeparator, Text(<<"d">>), TemplateClose>>

\* "{{a|b=c|d}}" has been tokenized into a template with two parameters
ParameterTransitionsWitness ==
    /\ Done
    /\ text = ExParams
    /\ Count(ret, "TemplateParamSeparator", Len(ret)) = 2
    /\ Count(ret, "TemplateParamEquals", Len(ret)) = 1

\* the whole input is "{{w}}" with no brace and no ampersand in w
IsPlainTemplate(t) ==
    /\ Len(t) >= 4
    /\ t[1] = "{" /\ t[2] = "{" /\ t[Len(t) - 1] = "}" /\ t[Len(t)] = "}"
    /\ \A i \in 3..(Len(t) - 2) : t[i] \notin {"{", "}", "&"}

\* the index of the first "|" of w, or Len(w) + 1
FirstBar(w) ==
    IF Contains(w, "|") THEN CHOOSE i \in 1..Len(w) :
                                 w[i] = "|" /\ \A j \in 1..(i - 1) : w[j] # "|"
    ELSE Len(w) + 1

\* within the name of "{{w}}" a newline that follows a non-whitespace character
\* is followed by a character other than "|", "=" and newline
NameBreaks(w) ==
    \E i \in 1..(Len(w) - 1) :
        /\ i < FirstBar(w)
        /\ w[i] = "\n"
        /\ \E j \in 1..i : w[j] \notin whitespace
        /\ w[i + 1] \notin {"|", "=", "\n"}

\* the loop of a frame scanning a template name stands after a Text that has a
\* non-whitespace character and ends with a newline, neither at "}}" nor at
\* one of "|", "=", newline
NameBroken ==
    /\ LoopTop
    /\ BitAnd(Context, TEMPLATE_NAME) # 0
    /\ Len(Stack) > 0
    /\ IsText(Stack[Len(Stack)])
    /\ \E j \in 1..Len(Stack[Len(Stack)].text) :
          Stack[Len(Stack)].text[j] \notin whitespace
    /\ Stack[Len(Stack)].text[Len(Stack[Len(Stack)].text)] = "\n"
    /\ ~AtHead(<<"}", "}">>)
    /\ Read(0) \notin {"|", "=", "\n"}

NewlineHeuristicResult ==
    Done =>
        /\ IsPlainTemplate(text) =>
              IF NameBreaks(SubSeq(text, 3, Len(text) - 2))
              THEN ret = <<Text(text)>>
              ELSE ret[1] = TemplateOpen /\ ret[Len(ret)] = TemplateClose
        /\ text = ExNewlineWord => ret = <<Text(text)>>
        /\ text = ExNewlineClose =>
              ret = <<TemplateOpen, Text(<<"a", "\n">>), TemplateClose>>
        /\ text = ExNewlineParam =>
              ret = <<TemplateOpen, Text(<<"a", "\n">>), TemplateParamSeparator,
                      Text(<<"b">>), TemplateClose>>

NewlineHeuristicStep ==
    /\ NameBroken => (exc' = "BadRoute" /\ stacks' = Pop(stacks))
    /\ (pc = "running" /\ exc = "BadRoute" /\ Top.fn = "_parse_template") =>
          /\ head' = Top.reset
          /\ ReadAt(head', 0) = "{"
          /\ exc' = "none"
          /\ LET last == stacks'[Len(stacks')].stack[Len(stacks'[Len(stacks')].stack)]
             IN  IsText(last) /\ last.text[Len(last.text)] = "{"

\* C8: a frame scanning a template name fails as soon as its loop stands after
\* a Text with a non-whitespace character and a final newline, at a character
\* that is neither the stop "}}" nor "|", "=" or newline; the failed "{{" is
\* then rescanned from its first "{", written as literal text. So "{{w}}" with a
\* plain w is a template iff the name of w has no such place: "{{a\n\nb}}" is
\* one Text, "{{a\n}}" and "{{a\n|b}}" are templates.
NewlineHeuristic == []NewlineHeuristicResult /\ [][NewlineHeuristicStep]_vars

\* "{{a\n\nb}}" came back as literal text
NewlineHeuristicWitness ==
    /\ Done
    /\ text = ExNewlineWord
    /\ ret = <<Text(ExNewlineWord)>>

\* the 0-based positions at which "{{", resp. "}}", occurs in t
OpenPositions(t) == {p \in 0..(Len(t) - 2) : t[p + 1] = "{" /\ t[p + 2] = "{"}
ClosePositions(t) == {p \in 0..(Len(t) - 2) : t[p + 1] = "}" /\ t[p + 2] = "}"}

Least(S) == CHOOSE p \in S : \A q \in S : p <= q
Greatest(S) == CHOOSE p \in S : \A q \in S : q <= p

\* C9: for a template in a parameter of a template, "{{a|k{{m}}t}}", tokenize
\* returns the outer pair as its first and last token and, strictly inside it,
\* one TemplateOpen at the inner "{{" matched by a TemplateClose at the inner
\* "}}"; "{{a|{{b}}}}" gives Open, a, Separator, Open, b, Close, Close.
Nesting ==
    Done =>
        /\ text \in NestInputs =>
              /\ ret[1] = TemplateOpen
              /\ ret[Len(ret)] = TemplateClose
              /\ Count(ret, "TemplateOpen", Len(ret)) = 2
              /\ Count(ret, "TemplateClose", Len(ret)) = 2
              /\ \E i, j \in 2..(Len(ret) - 1) :
                    /\ i < j
                    /\ ret[i] = TemplateOpen
                    /\ ret[j] = TemplateClose
                    /\ Offset(ret, i) = Greatest(OpenPositions(text))
                    /\ Offset(ret, j) = Least(ClosePositions(text))
                    /\ Offset(ret, Len(ret)) = Len(text) - 2
        /\ text = ExNested =>
              ret = <<TemplateOpen, Text(<<"a">>), TemplateParamSeparator,
                      TemplateOpen, Text(<<"b">>), TemplateClose, TemplateClose>>

\* "{{a|{{b}}}}": the inner pair lies inside the outer pair
NestingWitness ==
    /\ Done
    /\ text = ExNested
    /\ ret[1] = TemplateOpen
    /\ ret[4] = TemplateOpen
    /\ ret[6] = TemplateClose
    /\ ret[7] = TemplateClose

\* an input without any character the dispatch treats specially
IsPlain(t) == \A i \in 1..Len(t) : t[i] \notin {"{", "}", "|", "=", "&"}

\* C10: every call of tokenize, also a later one on the same Tokenizer, starts
\* with the head at 0 and no frame but its own, so that it returns what a fresh
\* Tokenizer returns: for an input of plain characters, that input as one Text.
TokenizeInitializes ==
    /\ [][Tokenize => (head' = 0 /\ Len(stacks') = 1)]_vars
    /\ [](Done => (IsPlain(text) =>
                     ret = IF Len(text) = 0 THEN <<>> ELSE <<Text(text)>>))

\* the number of frames the first n activations of c opened: one per
\* _parse_until and one per _parse_entity
FramesOf(c, n) ==
    Cardinality({i \in 1..n : c[i].fn \in {"_parse_until", "_parse_entity"}})

\* a speculation: an activation whose try statement catches BadRoute
IsSpeculation(call) == call.fn \in {"_parse_template", "_parse_entity"}

\* C11: while a BadRoute is in flight tokenize is still running and the
\* exception sits either in the _parse_entity that opened the failed frame, in
\* a _parse_until called by a _parse_template, or in that _parse_template: the
\* innermost speculation is the one that opened the failed frame, exactly
\* that frame is gone from the frame stack, the top-level _parse_until is not
\* the raiser, and tokenize never ends with a BadRoute.
BadRouteCaught ==
    /\ pc = "error" => exc # "BadRoute"
    /\ exc = "BadRoute" =>
          /\ pc = "running"
          /\ Len(calls) >= 2
          /\ \/ /\ Top.fn = "_parse_entity"
                /\ Len(stacks) = FramesOf(calls, Len(calls)) - 1
             \/ /\ Top.fn = "_parse_until"
                /\ Top.stop = StopClose
                /\ Len(calls) >= 3
                /\ calls[Len(calls) - 1].fn = "_parse_template"
                /\ Len(stacks) = FramesOf(calls, Len(calls)) - 1
             \/ /\ Top.fn = "_parse_template"
                /\ Len(stacks) = FramesOf(calls, Len(calls))
          /\ Len(stacks) >= 1
          /\ stacks[1].context = 0

\* a BadRoute raised two templates deep, on its way to the inner _parse_template
BadRouteCaughtWitness ==
    /\ exc = "BadRoute"
    /\ Len(calls) = 5
    /\ Top.fn = "_parse_until"
    /\ calls[4].fn = "_parse_template"
    /\ calls[2].fn = "_parse_template"
    /\ Len(stacks) = 2

\* tokenlist with the one character c added as text: merged into a trailing
\* Text token, a new Text token otherwise
OneMoreChar(tokenlist, c) ==
    IF tokenlist # <<>> /\ tokenlist[Len(tokenlist)].type = "Text"
    THEN [tokenlist EXCEPT ![Len(tokenlist)].text = @ \o <<c>>]
    ELSE Append(tokenlist, Text(<<c>>))

\* a speculation starts: the new activation remembers the head, which is at a
\* '{' or '&', the frames that exist stay as they are, and the caller waits
RollbackStart ==
    (pc = "running" /\ Len(calls') > Len(calls)) =>
        /\ \A i \in (Len(calls) + 1)..Len(calls') :
              IsSpeculation(calls'[i]) =>
                  /\ i = Len(calls) + 1
                  /\ calls'[i].reset = head
                  /\ ReadAt(head, 0) \in {"{", "&"}
        /\ IsSpeculation(calls'[Len(calls) + 1])
        /\ Len(stacks) = FramesOf(calls, Len(calls))
        /\ SubSeq(stacks', 1, Len(stacks)) = stacks
        /\ calls[Len(calls)].fn = "_parse_until"
        /\ SubSeq(calls', 1, Len(calls)) = SetTopAt(calls, "advance")

\* while a speculation is in progress, nothing touches the frames that
\* existed when it started, nor the activations below it
RollbackDuring ==
    \A i \in 1..Len(calls) :
        (pc = "running" /\ IsSpeculation(calls[i]) /\ Len(calls') >= i) =>
            LET F == FramesOf(calls, i - 1) IN
            /\ Len(stacks) >= F
            /\ Len(stacks') >= F
            /\ SubSeq(stacks', 1, F) = SubSeq(stacks, 1, F)
            /\ SubSeq(calls', 1, i - 1) = SubSeq(calls, 1, i - 1)
            /\ calls'[i].fn = calls[i].fn
            /\ calls'[i].reset = calls[i].reset

\* the speculation fails: its frame and those of the parses nested in it are
\* gone, the caller's frame gets the one character at the start position and
\* keeps its context, and the head is back at the start position
RollbackEnd ==
    (exc = "BadRoute" /\ exc' = "none") =>
        LET i == Len(calls)
            p == Top.reset
            F == FramesOf(calls, Len(calls) - 1)
        IN  /\ IsSpeculation(Top)
            /\ calls' = Pop(calls)
            /\ calls'[i - 1].fn = "_parse_until"
            /\ calls'[i - 1].at = "advance"
            /\ Len(stacks) = F
            /\ Len(stacks') = F
            /\ SubSeq(stacks', 1, F - 1) = SubSeq(stacks, 1, F - 1)
            /\ stacks'[F].context = stacks[F].context
            /\ stacks'[F].stack = OneMoreChar(stacks[F].stack, text[p + 1])
            /\ text[p + 1] \in {"{", "&"}
            /\ head' = p

\* the caller resumes its loop: line 202 moves the head one character on
RollbackResume ==
    (Running("_parse_until") /\ Top.at = "advance") =>
        /\ head' = head + 1
        /\ stacks' = stacks
        /\ calls' = SetTopAt(calls, "loop")

\* C12: when a template or entity speculation started at position p fails,
\* the dispatch loop of the calling frame resumes with that frame holding the
\* tokens it held before the attempt plus the one character at p (merged into
\* a preceding Text token), with its context and the stack depth as before
\* the attempt and the head at p + 1; nothing written by the failed frame or
\* by a parse nested in it is left in a surviving frame.
RollbackEffect ==
    [][RollbackStart /\ RollbackDuring /\ RollbackEnd /\ RollbackResume]_vars

\* a failed template inside a template name: the outer frame resumes with
\* the '{' merged into the name's text, its context, and the head after the '{'
RollbackEffectWitness ==
    /\ LoopTop
    /\ Len(stacks) = 2
    /\ Len(calls) = 3
    /\ Context = TEMPLATE_NAME
    /\ Stack = <<Text(<<"a", "{">>)>>
    /\ head = 4
    /\ ReadAt(head, -1) = "{"
    /\ ReadAt(head, 0) = "{"

\* the activation that opened the k-th frame
OwnerOf(k) ==
    calls[CHOOSE i \in 1..Len(calls) :
              /\ calls[i].fn \in {"_parse_until", "_parse_entity"}
              /\ FramesOf(calls, i) = k]

\* frames of a template have exactly one of the three bits, the others none
ContextShape ==
    /\ \A k \in 1..Len(stacks) :
          stacks[k].context \in {0, TEMPLATE_NAME, TEMPLATE_PARAM_KEY,
                                 TEMPLATE_PARAM_VALUE}
    /\ stacks # <<>> => stacks[1].context = 0
    /\ (pc = "running" /\ exc = "none") =>
          /\ Len(stacks) = FramesOf(calls, Len(calls))
          /\ \A k \in 1..Len(stacks) :
                IF OwnerOf(k).fn = "_parse_until" /\ OwnerOf(k).stop = StopClose
                THEN stacks[k].context \in {TEMPLATE_NAME, TEMPLATE_PARAM_KEY,
                                            TEMPLATE_PARAM_VALUE}
                ELSE stacks[k].context = 0

\* a frame's context changes only in the frame on top, on a '|' from NAME or
\* VALUE to KEY and on a '=' from KEY to VALUE; every separator leaves the
\* frame in KEY, every equals sign leaves it in VALUE; a new template frame
\* starts in NAME
ContextStep ==
    /\ \A k \in 1..Len(stacks) :
          (k <= Len(stacks') /\ stacks'[k].context # stacks[k].context) =>
              /\ k = Len(stacks)
              /\ Len(stacks') = Len(stacks)
              /\ \/ /\ Read(0) = "|"
                    /\ stacks[k].context \in {TEMPLATE_NAME, TEMPLATE_PARAM_VALUE}
                    /\ stacks'[k].context = TEMPLATE_PARAM_KEY
                    /\ stacks'[k].stack = Append(stacks[k].stack, TemplateParamSeparator)
                 \/ /\ Read(0) = "="
                    /\ stacks[k].context = TEMPLATE_PARAM_KEY
                    /\ stacks'[k].context = TEMPLATE_PARAM_VALUE
                    /\ stacks'[k].stack = Append(stacks[k].stack, TemplateParamEquals)
    /\ (/\ Len(stacks') = Len(stacks)
        /\ stacks # <<>>
        /\ Len(Stack') = Len(Stack) + 1
        /\ Stack'[Len(Stack')] = TemplateParamSeparator) =>
              /\ Context \in {TEMPLATE_NAME, TEMPLATE_PARAM_KEY, TEMPLATE_PARAM_VALUE}
              /\ Context' = TEMPLATE_PARAM_KEY
    /\ (/\ Len(stacks') = Len(stacks)
        /\ stacks # <<>>
        /\ Len(Stack') = Len(Stack) + 1
        /\ Stack'[Len(Stack')] = TemplateParamEquals) =>
              /\ Context = TEMPLATE_PARAM_KEY
              /\ Context' = TEMPLATE_PARAM_VALUE
    /\ (pc = "running" /\ Len(stacks') = Len(stacks) + 1) =>
          Context' = (IF calls'[Len(calls')].fn = "_parse_until"
                      THEN TEMPLATE_NAME ELSE 0)

\* C13: every frame opened by _parse_template has exactly one of
\* TEMPLATE_NAME, TEMPLATE_PARAM_KEY, TEMPLATE_PARAM_VALUE set at all times,
\* the only transitions are NAME -> KEY and VALUE -> KEY on '|', KEY -> KEY
\* on '|' and KEY -> VALUE on '=', and the top-level frame's context stays 0
\* (entity frames have context 0 as well).
ContextInvariant == []ContextShape /\ [][ContextStep]_vars

\* a second parameter's value: the frame went NAME, KEY, VALUE, KEY, VALUE
ContextInvariantWitness ==
    /\ LoopTop
    /\ Len(stacks) = 2
    /\ Context = TEMPLATE_PARAM_VALUE
    /\ Count(Stack, "TemplateParamSeparator", Len(Stack)) = 2
    /\ Count(Stack, "TemplateParamEquals", Len(Stack)) = 2

\* C14: in what tokenize returns, a TemplateParamEquals only comes where its
\* template is in a parameter key, that is after a TemplateParamSeparator of
\* that template with no other TemplateParamEquals of that template since:
\* at most one per parameter and none in the name; "{{a=b}}" keeps its "=" in
\* the name's text and "{{a|b=c=d}}" keeps the second "=" in the value's text.
OneEqualsPerParameter ==
    Done =>
        /\ \A i \in 1..Len(ret) :
              ret[i] = TemplateParamEquals =>
                  LET m == Modes(ret, i - 1)
                  IN  Len(m) > 0 /\ m[Len(m)] = "key"
        /\ text = ExNameEquals =>
              ret = <<TemplateOpen, Text(<<"a", "=", "b">>), TemplateClose>>
        /\ text = ExTwoEquals =>
              ret = <<TemplateOpen, Text(<<"a">>), TemplateParamSeparator,
                      Text(<<"b">>), TemplateParamEquals,
                      Text(<<"c", "=", "d">>), TemplateClose>>

\* "{{a|b=c=d}}" has been tokenized: one TemplateParamEquals, one "=" in text
OneEqualsPerParameterWitness ==
    /\ Done
    /\ text = ExTwoEquals
    /\ Count(ret, "TemplateParamEquals", Len(ret)) = 1
    /\ ret[Len(ret) - 1] = Text(<<"c", "=", "d">>)

\* the separators and equals signs of tokenlist all have a TemplateOpen of
\* tokenlist open before them
Contained(tokenlist) ==
    \A i \in 1..Len(tokenlist) :
        tokenlist[i] \in {TemplateParamSeparator, TemplateParamEquals} =>
            Len(Modes(tokenlist, i - 1)) > 0

\* C15: every TemplateParamSeparator and TemplateParamEquals of what tokenize
\* returns lies between a TemplateOpen and its TemplateClose; while tokenize
\* runs the same holds inside the top-level frame, where a "|" or "=" just
\* scanned, the first time or again after a rollback, is the end of a Text.
SeparatorContainment ==
    /\ Done =>
          /\ Contained(ret)
          /\ Modes(ret, Len(ret)) = <<>>
    /\ stacks # <<>> => Contained(stacks[1].stack)
    /\ (LoopTop /\ Len(stacks) = 1 /\ head > 0 /\ ReadAt(head, -1) \in {"|", "="}) =>
          /\ Stack # <<>>
          /\ IsText(Stack[Len(Stack)])
          /\ Stack[Len(Stack)].text[Len(Stack[Len(Stack)].text)] = ReadAt(head, -1)

\* "{{|" rolled back: its "|" came back as text at top level
SeparatorContainmentWitness ==
    /\ Done
    /\ text = <<"{", "{", "|">>
    /\ ret = <<Text(text)>>

\* C16: on a fresh Tokenizer 0 <= head <= len(text) in every reachable state;
\* a dispatch loop that has just taken a template into its frame is at the
\* character right after the template's "}}", one that has just taken an
\* entity is right after the entity's ";"; and when tokenize returns the head
\* is len(text).
HeadInvariant ==
    /\ 0 <= head
    /\ head <= Len(text)
    /\ Done => head = Len(text)
    /\ (LoopTop /\ Stack # <<>> /\ Stack[Len(Stack)] = TemplateClose) =>
          /\ head >= 4
          /\ ReadAt(head, -2) = "}"
          /\ ReadAt(head, -1) = "}"
    /\ (LoopTop /\ Stack # <<>> /\ Stack[Len(Stack)] = HTMLEntityEnd) =>
          /\ head >= 3
          /\ ReadAt(head, -1) = ";"
    /\ (Running("_parse_template") /\ Top.at = "else") =>
          /\ ReadAt(head, -1) = "}"
          /\ ReadAt(head, 0) = "}"
          /\ head - Top.reset >= 3

\* the loop of a template's frame is back after a nested template, with more
\* input to go
HeadInvariantWitness ==
    /\ LoopTop
    /\ Len(stacks) = 2
    /\ Stack # <<>>
    /\ Stack[Len(Stack)] = TemplateClose
    /\ head < Len(text)
    /\ ReadAt(head, -1) = "}"

\* C17: tokenize on a fresh Tokenizer eventually returns: a run has no step
\* left to take only once tokenize has returned its tokens.
TokenizeReturns == Done \/ ENABLED Next

\* the activations in progress that opened a frame: a _parse_until or
\* _parse_entity that a BadRoute is just leaving is no longer in progress
InProgress ==
    FramesOf(calls, Len(calls))
        - (IF exc = "BadRoute" /\ calls # <<>> /\ Top.fn # "_parse_template"
           THEN 1 ELSE 0)

\* C18: during a tokenize call on a fresh Tokenizer the depth of the frame
\* stack equals the number of _parse_until and _parse_entity activations in
\* progress, so that every frame is popped by the activation that pushed it
\* and no frame is left once the call is over.
FrameBalance == Len(stacks) = InProgress

\* no step changes the context of a frame below the top one; a step that
\* starts a parse changes no context at all; and a step that returns from a
\* _parse_template or _parse_entity, by success or by rollback, leaves the
\* caller's frame on top with the context it had
ContextKeptStep ==
    /\ \A k \in 1..Len(stacks) :
          (k < Len(stacks) /\ k <= Len(stacks')) =>
              stacks'[k].context = stacks[k].context
    /\ Len(stacks') > Len(stacks) =>
          \A k \in 1..Len(stacks) : stacks'[k].context = stacks[k].context
    /\ (/\ pc = "running"
        /\ calls # <<>>
        /\ IsSpeculation(calls[Len(calls)])
        /\ exc' = "none"
        /\ Len(calls') < Len(calls)) =>
          LET F == FramesOf(calls, Len(calls) - 1)
          IN  /\ Len(stacks') = F
              /\ F >= 1
              /\ stacks'[F].context = stacks[F].context

\* what the two examples give
ContextKeptExamples ==
    Done =>
        /\ text = ExNestedKey =>
              ret = <<TemplateOpen, Text(<<"a">>), TemplateParamSeparator,
                      TemplateOpen, Text(<<"b">>), TemplateParamSeparator,
                      Text(<<"c">>), TemplateParamEquals, Text(<<"d">>),
                      TemplateClose, TemplateParamEquals, Text(<<"e">>),
                      TemplateClose>>
        /\ text = ExEntityKey =>
              ret = <<TemplateOpen, Text(<<"a">>), TemplateParamSeparator,
                      Text(<<"b">>), HTMLEntityStart, Text(<<"a", "m", "p">>),
                      HTMLEntityEnd, TemplateParamEquals, Text(<<"c">>),
                      TemplateClose>>

\* C19: a template or entity parse started from a frame F leaves F's context
\* as it was, whether it succeeds or is rolled back and whatever "|" and "="
\* it scans itself; so the "=" after the nested construct in
\* "{{a|{{b|c=d}}=e}}" and in "{{a|b&amp;=c}}" is a TemplateParamEquals.
ContextKept == []ContextKeptExamples /\ [][ContextKeptStep]_vars

\* the loop of the outer template of "{{a|{{b|c=d}}=e}}" is back after the
\* inner template, still in a parameter key, with the "=" next
ContextKeptWitness ==
    /\ LoopTop
    /\ text = ExNestedKey
    /\ Len(stacks) = 2
    /\ Stack # <<>>
    /\ Stack[Len(Stack)] = TemplateClose
    /\ Context = TEMPLATE_PARAM_KEY
    /\ Read(0) = "="
====
